---------------------------- MODULE Spec2Model ----------------------------
(* A model of lab1/parse.py: the retrying fetcher (fetch_url), the page     *)
(* classifier (is_likely_recipe) and the resumable walk of one site         *)
(* (collect_for_site) with its on-disk ledger and artifact files.           *)
EXTENDS Integers, Sequences, FiniteSets, TLC

(***************************************************************************)
(* Program constants.                                                      *)
(***************************************************************************)
MAX_RETRIES == 3
\* BACKOFF_FACTOR = 1.5, kept exact as the fraction BACKOFF_NUM / BACKOFF_DEN
BACKOFF_NUM == 3
BACKOFF_DEN == 2
\* the two length thresholds of is_likely_recipe
MIN_LEN == 800
LONG_LEN == 2000
\* the only status collect_for_site accepts
HTTP_OK == 200

(***************************************************************************)
(* Bounds of the model.                                                    *)
(***************************************************************************)
\* the per-site target (TARGET_PER_SITE) ranges over 1..MaxTarget
MaxTarget == 2
\* start_id of the site configuration
StartId == 2
\* the walk is followed over the candidates start_id + k*step, k in 0..Span
Span == 3
\* number of process restarts followed
MaxRuns == 3
\* number of U+0130 characters a classified body may hold
MaxDotI == 2
\* number of records given to compute_stats
MaxStatLen == 4

(***************************************************************************)
(* Strings.  A Python str is a sequence of runs [t, n]: n characters of    *)
(* kind t.  Kinds:                                                         *)
(*   "fill"  characters that no keyword contains and that str.lower()      *)
(*           leaves alone (ASCII lower-case letters, digits, markup)       *)
(*   "kw1" "kw2" "kw3"  one occurrence of the lower-case keyword           *)
(*           "ингредиент" / "рецепт" / "приготовление" (n = 1)             *)
(*   "KW1" "KW2" "KW3"  the same keyword in upper case (n = 1)             *)
(*   "doti"  the character U+0130, whose lower() is the two characters     *)
(*           U+0069 U+0307 (the only character whose lower() is longer)    *)
(*   "idot"  that two-character lower-case form                            *)
(* None is a value of its own.                                             *)
(***************************************************************************)
KwLower == {"kw1", "kw2", "kw3"}
KwUpper == {"KW1", "KW2", "KW3"}

NoneStr == [none |-> TRUE, runs |-> <<>>]
Str(rs) == [none |-> FALSE, runs |-> rs]
EmptyStr == Str(<<>>)
Fill(n) == [t |-> "fill", n |-> n]
Tok(t) == [t |-> t, n |-> 1]

\* number of characters of one run
RunLen(r) ==
  CASE r.t = "fill" -> r.n
    [] r.t \in {"kw1", "KW1"} -> 10 * r.n
    [] r.t \in {"kw2", "KW2"} -> 6 * r.n
    [] r.t \in {"kw3", "KW3"} -> 13 * r.n
    [] r.t = "doti" -> r.n
    [] r.t = "idot" -> 2 * r.n

RECURSIVE SumLen(_)
SumLen(rs) == IF rs = <<>> THEN 0 ELSE RunLen(Head(rs)) + SumLen(Tail(rs))

\* len(s)
StrLen(s) == SumLen(s.runs)

\* `not s`: None and "" are falsy
Falsy(s) == s.none \/ s.runs = <<>>

\* str.lower() of one run
LowerRun(r) ==
  CASE r.t = "KW1" -> [r EXCEPT !.t = "kw1"]
    [] r.t = "KW2" -> [r EXCEPT !.t = "kw2"]
    [] r.t = "KW3" -> [r EXCEPT !.t = "kw3"]
    [] r.t = "doti" -> [r EXCEPT !.t = "idot"]
    [] OTHER -> r

\* s.lower()
Lower(s) == Str([i \in 1..Len(s.runs) |-> LowerRun(s.runs[i])])

\* kw in s
Contains(s, kw) == \E i \in 1..Len(s.runs) : s.runs[i].t = kw /\ s.runs[i].n > 0

\* len(s.encode("utf-8")): Cyrillic letters and U+0130 take two bytes each
Utf8Run(r) ==
  CASE r.t = "fill" -> r.n
    [] r.t = "doti" -> 2 * r.n
    [] r.t = "idot" -> 3 * r.n
    [] OTHER -> 2 * RunLen(r)

RECURSIVE SumUtf8(_)
SumUtf8(rs) == IF rs = <<>> THEN 0 ELSE Utf8Run(Head(rs)) + SumUtf8(Tail(rs))

Utf8Len(s) == SumUtf8(s.runs)

(***************************************************************************)
(* is_likely_recipe(html, site_key)                                        *)
(***************************************************************************)
SiteKeys == {"povarenok", "koolinar"}

HasKeyword(lower) ==
  Contains(lower, "kw1") \/ Contains(lower, "kw2") \/ Contains(lower, "kw3")

\* faulty variant: the keyword test comes before the length floor
is_likely_recipe_kwfirst(html, site_key) ==
  IF Falsy(html) THEN FALSE
  ELSE IF site_key \in SiteKeys /\ HasKeyword(Lower(html)) THEN TRUE
  ELSE IF StrLen(html) < MIN_LEN THEN FALSE
  ELSE StrLen(Lower(html)) > LONG_LEN

\* faulty variant: the keywords are looked up in html, not in html.lower()
is_likely_recipe_nolower(html, site_key) ==
  IF Falsy(html) THEN FALSE
  ELSE IF StrLen(html) < MIN_LEN THEN FALSE
  ELSE IF site_key \in SiteKeys /\ HasKeyword(html) THEN TRUE
  ELSE StrLen(Lower(html)) > LONG_LEN

is_likely_recipe(html, site_key) ==
  IF Falsy(html) THEN FALSE
  ELSE IF StrLen(html) < MIN_LEN THEN FALSE
  ELSE LET lower == Lower(html) IN
    IF site_key = "povarenok" /\ HasKeyword(lower) THEN TRUE
    ELSE IF site_key = "koolinar" /\ HasKeyword(lower) THEN TRUE
    ELSE StrLen(lower) > LONG_LEN

(***************************************************************************)
(* State.                                                                  *)
(***************************************************************************)
VARIABLES
  \* collect_for_site: the arguments and TARGET_PER_SITE
  site_key, start_id, step, target,
  \* the disk: lines of meta.jsonl, ids with a raw file, ids with a text file
  ledger, raw_files, text_files,
  \* collect_for_site: position and locals
  pc, seen_ids, metadata, current_id, attempts, result,
  \* fetch_url: locals (wait is the fraction wait.num / wait.den)
  attempt, wait,
  \* history of the running fetch_url call: GET calls made, sleeps slept,
  \* GET calls that raised, the response the last GET returned
  gets, sleeps, fails, served,
  \* history: identifiers passed to fetch_url in this run, and for each
  \* returned call whether its result was acceptable
  fetched, okResp,
  \* history: throttle delays slept in this run
  throttles,
  \* history: runs started, length of the ledger when this run loaded it,
  \* identifiers of the records written whole since the beginning
  runs, loaded_n, appended,
  \* history: writes of this run that raised OSError
  write_errors,
  \* a call of is_likely_recipe on its own: position, arguments, result
  c_pc, c_html, c_site, c_result,
  \* a call of compute_stats on its own: position, argument, result
  s_pc, s_meta, s_stats

cfgvars == <<site_key, start_id, step, target>>
diskvars == <<ledger, raw_files, text_files>>
memvars == <<seen_ids, metadata, current_id, attempts, result>>
fetchvars == <<attempt, wait, gets, sleeps, fails, served>>
histvars == <<fetched, okResp, throttles, runs, loaded_n, appended, write_errors>>
classvars == <<c_pc, c_html, c_site, c_result>>
statvars == <<s_pc, s_meta, s_stats>>
vars == <<cfgvars, diskvars, pc, memvars, fetchvars, histvars, classvars, statvars>>

(***************************************************************************)
(* Values.                                                                 *)
(***************************************************************************)
Steps == {-1, 1}
Statuses == {HTTP_OK, 404}

\* bodies a site answers with: nothing, a recipe page, a short error page
RecipeBody == Str(<<Fill(900), Tok("KW2"), Fill(50)>>)
ErrorBody == Str(<<Fill(300)>>)
WalkBodies == {EmptyStr, RecipeBody, ErrorBody}

\* the (None, None) result of fetch_url, and a (status, body) result
NoneResult == [none |-> TRUE, status |-> 0, body |-> NoneStr]
Response(status, body) == [none |-> FALSE, status |-> status, body |-> body]

\* fractions
Frac(n, d) == [num |-> n, den |-> d]
FracLess(a, b) == a.num * b.den < b.num * a.den
FracTimes(a, n, d) == Frac(a.num * n, a.den * d)
WAIT0 == Frac(1, 1)

\* the candidates the model follows: start_id + k*step for k in 0..Span
InSpan(id) == \E k \in 0..Span : id = start_id + k * step

\* the meta dict of lines 136-145 (url and the two paths are functions of
\* the id; the text size and word count come from the extractor)
Meta(id, res) ==
  [id |-> id, status_code |-> res.status, raw_size_bytes |-> Utf8Len(res.body)]

\* A line of meta.jsonl.  torn: json.loads cannot parse it; open: it does not
\* end in a newline yet, so the next text written to the file continues it.
\* the line of a completed write, json.dumps(meta) + "\n"
Line(meta) == [torn |-> FALSE, open |-> FALSE, obj |-> meta]
\* what a write cut short inside the JSON text leaves
TornLine(meta) == [torn |-> TRUE, open |-> TRUE, obj |-> meta]
\* what a write cut short between the JSON text and its newline leaves: a
\* whole record, which json.loads accepts
BareLine(meta) == [torn |-> FALSE, open |-> TRUE, obj |-> meta]

\* the file after the text l has been written at its end (mode "a"): after a
\* line without newline the text lands on that line, which json.loads then
\* rejects
Write(lines, l) ==
  IF lines # <<>> /\ lines[Len(lines)].open
    THEN [lines EXCEPT ![Len(lines)] =
            [torn |-> TRUE, open |-> l.open, obj |-> @.obj]]
    ELSE Append(lines, l)

\* where a write of line 149 that does not complete can stop
Cuts == {"none", "part", "json"}
CutWrite(lines, meta, c) ==
  CASE c = "none" -> lines
    [] c = "part" -> Write(lines, TornLine(meta))
    [] c = "json" -> Write(lines, BareLine(meta))

LedgerIds(lines) == {lines[i].obj.id : i \in {j \in 1..Len(lines) : ~lines[j].torn}}
HasTorn(lines) == \E i \in 1..Len(lines) : lines[i].torn

(***************************************************************************)
(* The load of lines 103-110: json.loads raises on a line it cannot parse. *)
(***************************************************************************)
\* faulty variant: the identifiers are not added to seen_ids
RECURSIVE LoadLines_noseen(_, _, _)
LoadLines_noseen(lines, seen, meta) ==
  IF lines = <<>> THEN [ok |-> TRUE, seen_ids |-> seen, metadata |-> meta]
  ELSE IF Head(lines).torn THEN [ok |-> FALSE, seen_ids |-> {}, metadata |-> <<>>]
  ELSE LoadLines_noseen(Tail(lines), seen, Append(meta, Head(lines).obj))

\* faulty variant: a line that cannot be parsed is skipped
RECURSIVE LoadLines_skipbad(_, _, _)
LoadLines_skipbad(lines, seen, meta) ==
  IF lines = <<>> THEN [ok |-> TRUE, seen_ids |-> seen, metadata |-> meta]
  ELSE IF Head(lines).torn THEN LoadLines_skipbad(Tail(lines), seen, meta)
  ELSE LoadLines_skipbad(Tail(lines), seen \cup {Head(lines).obj.id},
                         Append(meta, Head(lines).obj))

RECURSIVE LoadLines(_, _, _)
LoadLines(lines, seen, meta) ==
  IF lines = <<>> THEN [ok |-> TRUE, seen_ids |-> seen, metadata |-> meta]
  ELSE IF Head(lines).torn THEN [ok |-> FALSE, seen_ids |-> {}, metadata |-> <<>>]
  ELSE LoadLines(Tail(lines), seen \cup {Head(lines).obj.id},
                 Append(meta, Head(lines).obj))

(***************************************************************************)
(* Initial state: nothing on disk, the process about to call               *)
(* collect_for_site.                                                       *)
(***************************************************************************)
\* no call of compute_stats
NoStats ==
  [num_documents |-> 0, total_raw_bytes |-> 0, total_text_bytes |-> 0,
   total_words |-> 0, avg_raw_bytes |-> Frac(0, 1), avg_text_bytes |-> Frac(0, 1),
   avg_words |-> Frac(0, 1), median_raw_bytes |-> Frac(0, 1),
   median_text_bytes |-> Frac(0, 1), median_words |-> Frac(0, 1)]

StatsIdle ==
  /\ s_pc = "idle"
  /\ s_meta = <<>>
  /\ s_stats = NoStats

ClassIdle ==
  /\ c_pc = "idle"
  /\ c_html = NoneStr
  /\ c_site = "povarenok"
  /\ c_result = FALSE

\* the locals of a collect_for_site that has not begun, on an empty disk
WalkerFresh ==
  /\ start_id = StartId
  /\ ledger = <<>>
  /\ raw_files = {}
  /\ text_files = {}
  /\ seen_ids = {}
  /\ metadata = <<>>
  /\ current_id = start_id
  /\ attempts = 0
  /\ result = NoneResult
  /\ attempt = 0
  /\ wait = WAIT0
  /\ gets = 0
  /\ sleeps = <<>>
  /\ fails = 0
  /\ served = NoneResult
  /\ fetched = <<>>
  /\ okResp = <<>>
  /\ throttles = 0
  /\ write_errors = 0
  /\ runs = 1
  /\ loaded_n = 0
  /\ appended = <<>>

Init ==
  /\ site_key \in SiteKeys
  /\ step \in Steps
  /\ target \in 1..MaxTarget
  /\ pc = "Start"
  /\ WalkerFresh
  /\ ClassIdle
  /\ StatsIdle

(***************************************************************************)
(* collect_for_site                                                        *)
(***************************************************************************)
\* lines 103-110
Load ==
  /\ pc = "Start"
  /\ LET r == LoadLines(ledger, {}, <<>>) IN
       /\ seen_ids' = r.seen_ids
       /\ metadata' = r.metadata
       /\ pc' = IF r.ok THEN "Loaded" ELSE "LoadError"
  /\ loaded_n' = Len(ledger)
  /\ UNCHANGED <<cfgvars, diskvars, current_id, attempts, result, fetchvars,
                 fetched, okResp, throttles, runs, appended, write_errors,
                 classvars, statvars>>

\* faulty variant: the walk starts one step past start_id
Setup_stepfirst ==
  /\ pc = "Loaded"
  /\ current_id' = start_id + step
  /\ attempts' = 0
  /\ pc' = "Seeking"
  /\ UNCHANGED <<cfgvars, diskvars, seen_ids, metadata, result, fetchvars,
                 histvars, classvars, statvars>>

\* lines 112-115
Setup ==
  /\ pc = "Loaded"
  /\ current_id' = start_id
  /\ attempts' = 0
  /\ pc' = "Seeking"
  /\ UNCHANGED <<cfgvars, diskvars, seen_ids, metadata, result, fetchvars,
                 histvars, classvars, statvars>>

\* faulty variant: the loop runs while len(seen_ids) <= TARGET_PER_SITE
LoopCond_le == Cardinality(seen_ids) <= target

\* line 116
LoopCond == Cardinality(seen_ids) < target

\* line 116, condition false; lines 156-157
LoopExit ==
  /\ pc = "Seeking"
  /\ ~LoopCond
  /\ pc' = "Done"
  /\ UNCHANGED <<cfgvars, diskvars, memvars, fetchvars, histvars, classvars, statvars>>

\* lines 118-120
SkipSeen ==
  /\ pc = "Seeking"
  /\ LoopCond
  /\ current_id \in seen_ids
  /\ InSpan(current_id + step)
  /\ current_id' = current_id + step
  /\ UNCHANGED <<cfgvars, diskvars, pc, seen_ids, metadata, attempts, result,
                 fetchvars, histvars, classvars, statvars>>

\* faulty variant: the test of line 118 is missing
CallFetch_noskip ==
  /\ pc = "Seeking"
  /\ LoopCond
  /\ fetched' = Append(fetched, current_id)
  /\ attempt' = 1
  /\ wait' = WAIT0
  /\ gets' = 0
  /\ sleeps' = <<>>
  /\ fails' = 0
  /\ served' = NoneResult
  /\ pc' = "Get"
  /\ UNCHANGED <<cfgvars, diskvars, memvars, okResp, throttles, runs,
                 loaded_n, appended, write_errors, classvars, statvars>>

\* line 122, the call; lines 46-47
CallFetch ==
  /\ pc = "Seeking"
  /\ LoopCond
  /\ current_id \notin seen_ids
  /\ fetched' = Append(fetched, current_id)
  /\ attempt' = 1
  /\ wait' = WAIT0
  /\ gets' = 0
  /\ sleeps' = <<>>
  /\ fails' = 0
  /\ served' = NoneResult
  /\ pc' = "Get"
  /\ UNCHANGED <<cfgvars, diskvars, memvars, okResp, throttles, runs,
                 loaded_n, appended, write_errors,
                 classvars, statvars>>

(***************************************************************************)
(* fetch_url                                                               *)
(***************************************************************************)
\* faulty variant: a response with a status other than 200 is retried
GetResponse_retry ==
  /\ pc = "Get"
  /\ gets' = gets + 1
  /\ \E st \in Statuses, b \in WalkBodies :
       /\ served' = Response(st, b)
       /\ IF st = HTTP_OK \/ attempt = MAX_RETRIES
            THEN result' = Response(st, b) /\ pc' = "Fetched"
            ELSE result' = result /\ pc' = "Backoff"
  /\ UNCHANGED <<cfgvars, diskvars, seen_ids, metadata, current_id, attempts,
                 attempt, wait, sleeps, fails, histvars, classvars, statvars>>

\* lines 49-50: the GET returns a response, whatever its status
GetResponse ==
  /\ pc = "Get"
  /\ \E st \in Statuses, b \in WalkBodies :
       /\ served' = Response(st, b)
       /\ result' = Response(st, b)
  /\ gets' = gets + 1
  /\ pc' = "Fetched"
  /\ UNCHANGED <<cfgvars, diskvars, seen_ids, metadata, current_id, attempts,
                 attempt, wait, sleeps, fails, histvars, classvars, statvars>>

\* lines 51-53: the GET raises requests.RequestException
GetFail ==
  /\ pc = "Get"
  /\ gets' = gets + 1
  /\ IF attempt = MAX_RETRIES
       THEN result' = NoneResult /\ pc' = "Fetched"
       ELSE result' = result /\ pc' = "Backoff"
  /\ fails' = fails + 1
  /\ UNCHANGED <<cfgvars, diskvars, seen_ids, metadata, current_id, attempts,
                 attempt, wait, sleeps, served, histvars, classvars, statvars>>

\* faulty variant: the wait is not multiplied
Backoff_flat ==
  /\ pc = "Backoff"
  /\ sleeps' = Append(sleeps, wait)
  /\ wait' = wait
  /\ attempt' = attempt + 1
  /\ pc' = "Get"
  /\ UNCHANGED <<cfgvars, diskvars, memvars, gets, fails, served, histvars,
                 classvars, statvars>>

\* lines 54-55, and the next turn of the for loop of line 47
Backoff ==
  /\ pc = "Backoff"
  /\ sleeps' = Append(sleeps, wait)
  /\ wait' = FracTimes(wait, BACKOFF_NUM, BACKOFF_DEN)
  /\ attempt' = attempt + 1
  /\ pc' = "Get"
  /\ UNCHANGED <<cfgvars, diskvars, memvars, gets, fails, served, histvars,
                 classvars, statvars>>

(***************************************************************************)
(* collect_for_site, after fetch_url has returned                          *)
(***************************************************************************)
\* line 125 and line 126 together
Acceptable(res, site) ==
  /\ ~res.none
  /\ res.status = HTTP_OK
  /\ ~Falsy(res.body)
  /\ is_likely_recipe(res.body, site)

\* faulty variant: an identifier whose result is rejected is put in seen_ids
AfterFetch_markseen ==
  /\ pc = "Fetched"
  /\ attempts' = attempts + 1
  /\ okResp' = Append(okResp, Acceptable(result, site_key))
  /\ pc' = IF Acceptable(result, site_key) THEN "SaveRaw" ELSE "Throttle"
  /\ seen_ids' = IF Acceptable(result, site_key) THEN seen_ids
                 ELSE seen_ids \cup {current_id}
  /\ attempt' = 0
  /\ wait' = WAIT0
  /\ gets' = 0
  /\ sleeps' = <<>>
  /\ fails' = 0
  /\ served' = NoneResult
  /\ UNCHANGED <<cfgvars, diskvars, metadata, current_id, result,
                 fetched, throttles, runs, loaded_n, appended, write_errors,
                 classvars, statvars>>

\* lines 122-126: the result is bound, attempts += 1, the two tests
AfterFetch ==
  /\ pc = "Fetched"
  /\ attempts' = attempts + 1
  /\ okResp' = Append(okResp, Acceptable(result, site_key))
  /\ pc' = IF Acceptable(result, site_key) THEN "SaveRaw" ELSE "Throttle"
  /\ attempt' = 0
  /\ wait' = WAIT0
  /\ gets' = 0
  /\ sleeps' = <<>>
  /\ fails' = 0
  /\ served' = NoneResult
  /\ UNCHANGED <<cfgvars, diskvars, seen_ids, metadata, current_id, result,
                 fetched, throttles, runs, loaded_n, appended, write_errors,
                 classvars, statvars>>

\* lines 127-128: open(raw_path, "wb") and write
SaveRaw ==
  /\ pc = "SaveRaw"
  /\ raw_files' = raw_files \cup {current_id}
  /\ pc' = "SaveText"
  /\ UNCHANGED <<cfgvars, ledger, text_files, memvars, fetchvars, histvars,
                 classvars, statvars>>

\* lines 127-128 raising OSError: the file may or may not have been created
SaveRawFail ==
  /\ pc = "SaveRaw"
  /\ raw_files' \in {raw_files, raw_files \cup {current_id}}
  /\ pc' = "WriteError"
  /\ write_errors' = write_errors + 1
  /\ UNCHANGED <<cfgvars, ledger, text_files, memvars, fetchvars,
                 fetched, okResp, throttles, runs, loaded_n,
                 appended, classvars, statvars>>

\* faulty variant: the text file is not written
SaveText_skip ==
  /\ pc = "SaveText"
  /\ pc' = "Record"
  /\ UNCHANGED <<cfgvars, diskvars, memvars, fetchvars, histvars, classvars, statvars>>

\* lines 129-131: extract the text, open(text_path, "w") and write
SaveText ==
  /\ pc = "SaveText"
  /\ text_files' = text_files \cup {current_id}
  /\ pc' = "Record"
  /\ UNCHANGED <<cfgvars, ledger, raw_files, memvars, fetchvars, histvars,
                 classvars, statvars>>

\* faulty variant: the OSError is caught and the walk goes on
SaveTextFail_swallow ==
  /\ pc = "SaveText"
  /\ text_files' \in {text_files, text_files \cup {current_id}}
  /\ pc' = "Throttle"
  /\ write_errors' = write_errors + 1
  /\ UNCHANGED <<cfgvars, ledger, raw_files, memvars, fetchvars,
                 fetched, okResp, throttles, runs, loaded_n,
                 appended, classvars, statvars>>

\* lines 129-131 raising OSError
SaveTextFail ==
  /\ pc = "SaveText"
  /\ text_files' \in {text_files, text_files \cup {current_id}}
  /\ pc' = "WriteError"
  /\ write_errors' = write_errors + 1
  /\ UNCHANGED <<cfgvars, ledger, raw_files, memvars, fetchvars,
                 fetched, okResp, throttles, runs, loaded_n,
                 appended, classvars, statvars>>

\* lines 133-147: stat both files, build meta, metadata.append, seen_ids.add
Record ==
  /\ pc = "Record"
  /\ metadata' = Append(metadata, Meta(current_id, result))
  /\ seen_ids' = seen_ids \cup {current_id}
  /\ pc' = "Append"
  /\ UNCHANGED <<cfgvars, diskvars, current_id, attempts, result, fetchvars,
                 histvars, classvars, statvars>>

\* lines 148-150: the line is appended to meta.jsonl
AppendLedger ==
  /\ pc = "Append"
  /\ ledger' = Write(ledger, Line(Meta(current_id, result)))
  /\ appended' = Append(appended, current_id)
  /\ pc' = "Throttle"
  /\ UNCHANGED <<cfgvars, raw_files, text_files, memvars, fetchvars, fetched,
                 okResp, throttles, runs, loaded_n, write_errors,
                 classvars, statvars>>

\* lines 148-149 raising OSError: nothing, a part of the JSON text, or the
\* JSON text without its newline was written
AppendLedgerFail ==
  /\ pc = "Append"
  /\ \E c \in Cuts :
       /\ ledger' = CutWrite(ledger, Meta(current_id, result), c)
       /\ appended' = IF c = "json" THEN Append(appended, current_id)
                                     ELSE appended
  /\ pc' = "WriteError"
  /\ write_errors' = write_errors + 1
  /\ UNCHANGED <<cfgvars, raw_files, text_files, memvars, fetchvars,
                 fetched, okResp, throttles, runs, loaded_n,
                 classvars, statvars>>

\* faulty variant: the delay is slept only after an accepted document
Throttle_acceptedonly ==
  /\ pc = "Throttle"
  /\ InSpan(current_id + step)
  /\ throttles' = IF okResp[Len(okResp)] THEN throttles + 1 ELSE throttles
  /\ current_id' = current_id + step
  /\ result' = NoneResult
  /\ pc' = "Seeking"
  /\ UNCHANGED <<cfgvars, diskvars, seen_ids, metadata, attempts, fetchvars,
                 fetched, okResp, runs, loaded_n, appended, write_errors,
                 classvars, statvars>>

\* lines 152-153: the throttle delay, then current_id += step
Throttle ==
  /\ pc = "Throttle"
  /\ InSpan(current_id + step)
  /\ throttles' = throttles + 1
  /\ current_id' = current_id + step
  /\ result' = NoneResult
  /\ pc' = "Seeking"
  /\ UNCHANGED <<cfgvars, diskvars, seen_ids, metadata, attempts, fetchvars,
                 fetched, okResp, runs, loaded_n, appended, write_errors,
                 classvars, statvars>>

(***************************************************************************)
(* The process: it can be killed at any point, and be started again.       *)
(***************************************************************************)
Running ==
  pc \in {"Start", "Loaded", "Seeking", "Get", "Backoff", "Fetched", "SaveRaw",
          "SaveText", "Record", "Append", "Throttle"}

\* what a write cut short by the kill leaves on disk
CrashDisk ==
  /\ raw_files' \in IF pc = "SaveRaw"
                      THEN {raw_files, raw_files \cup {current_id}}
                      ELSE {raw_files}
  /\ text_files' \in IF pc = "SaveText"
                       THEN {text_files, text_files \cup {current_id}}
                       ELSE {text_files}
  /\ \E c \in (IF pc = "Append" THEN Cuts ELSE {"none"}) :
       /\ ledger' = CutWrite(ledger, Meta(current_id, result), c)
       /\ appended' = IF c = "json" THEN Append(appended, current_id)
                                     ELSE appended

\* the memory of a process that is gone
MemoryGone ==
  /\ seen_ids' = {}
  /\ metadata' = <<>>
  /\ current_id' = start_id
  /\ attempts' = 0
  /\ result' = NoneResult
  /\ attempt' = 0
  /\ wait' = WAIT0
  /\ gets' = 0
  /\ sleeps' = <<>>
  /\ fails' = 0
  /\ served' = NoneResult
  /\ fetched' = <<>>
  /\ okResp' = <<>>
  /\ throttles' = 0
  /\ write_errors' = 0

Crash ==
  /\ Running
  /\ CrashDisk
  /\ MemoryGone
  /\ pc' = "Crashed"
  /\ UNCHANGED <<cfgvars, runs, loaded_n, classvars, statvars>>

\* the program is started again on the disk as it was left
Restart ==
  /\ pc \in {"Crashed", "Done", "LoadError", "WriteError"}
  /\ runs < MaxRuns
  /\ runs' = runs + 1
  /\ MemoryGone
  /\ pc' = "Start"
  /\ UNCHANGED <<cfgvars, diskvars, loaded_n, appended, classvars, statvars>>

Next ==
  \/ Load
  \/ Setup
  \/ LoopExit
  \/ SkipSeen
  \/ CallFetch
  \/ GetResponse
  \/ GetFail
  \/ Backoff
  \/ AfterFetch
  \/ SaveRaw
  \/ SaveRawFail
  \/ SaveText
  \/ SaveTextFail
  \/ Record
  \/ AppendLedger
  \/ AppendLedgerFail
  \/ Throttle
  \/ Crash
  \/ Restart

Spec == Init /\ [][Next]_vars

(***************************************************************************)
(* is_likely_recipe on its own: every body of ClassBodies with every site  *)
(* key of ClassSites.                                                      *)
(***************************************************************************)
\* a site key that SITES does not configure
ClassSites == SiteKeys \cup {"eda"}

LenCases ==
  {1, 100, MIN_LEN - 1, MIN_LEN, MIN_LEN + 1, LONG_LEN - 1, LONG_LEN, LONG_LEN + 1}

NonEmptyRuns(rs) == SelectSeq(rs, LAMBDA r : r.n > 0)

\* a body of len characters: filler, then keyword kw (or "none"), then d
\* characters U+0130
Body(len, kw, d) ==
  LET k == IF kw = "none" THEN 0 ELSE RunLen(Tok(kw))
  IN Str(NonEmptyRuns(<<Fill(len - k - d),
                        [t |-> IF kw = "none" THEN "fill" ELSE kw,
                         n |-> IF kw = "none" THEN 0 ELSE 1],
                        [t |-> "doti", n |-> d]>>))

ClassBodies ==
  {NoneStr, EmptyStr} \cup
  {Body(len, kw, d) : <<len, kw, d>> \in
     {x \in LenCases \X ({"none"} \cup KwLower \cup KwUpper) \X (0..MaxDotI) :
        x[1] - x[3] - (IF x[2] = "none" THEN 0 ELSE RunLen(Tok(x[2]))) >= 0}}

InitClassify ==
  /\ c_pc = "call"
  /\ c_html \in ClassBodies
  /\ c_site \in ClassSites
  /\ c_result = FALSE
  /\ site_key = "povarenok"
  /\ step = -1
  /\ target = 1
  /\ pc = "Idle"
  /\ WalkerFresh
  /\ StatsIdle

\* lines 71-83
Classify ==
  /\ c_pc = "call"
  /\ c_result' = is_likely_recipe(c_html, c_site)
  /\ c_pc' = "return"
  /\ UNCHANGED <<cfgvars, diskvars, pc, memvars, fetchvars, histvars, c_html,
                 c_site, statvars>>

NextClassify == Classify

SpecClassify == InitClassify /\ [][NextClassify]_vars

\* the body of the call holds a keyword, in any case of letters
BodyHasKeyword == ~c_html.none /\ HasKeyword(Lower(c_html))
BodyLen == IF c_html.none THEN 0 ELSE StrLen(c_html)

(***************************************************************************)
(* C6 as stated: a body of length 100 that holds a recognized keyword is   *)
(* accepted (for a configured site).                                       *)
(***************************************************************************)
C6_KeywordOverridesFloor ==
  (c_pc = "return" /\ c_site \in SiteKeys /\ BodyHasKeyword /\ BodyLen = 100)
    => c_result = TRUE

(***************************************************************************)
(* C6 amended: a body of length 100 that holds a recognized keyword is     *)
(* rejected; every body shorter than 800 is rejected, with or without a    *)
(* keyword, since the length floor is tested before the keywords.          *)
(***************************************************************************)
C6_FloorBeforeKeyword ==
  (c_pc = "return" /\ BodyLen < MIN_LEN) => c_result = FALSE

C6_Witness ==
  /\ c_pc = "return"
  /\ c_site \in SiteKeys
  /\ BodyHasKeyword
  /\ BodyLen = 100
  /\ c_result = FALSE

(***************************************************************************)
(* C7 as stated: for every site key, a body of length at least 800 whose   *)
(* lower-cased form holds a keyword is accepted.                           *)
(***************************************************************************)
C7_KeywordAnySite ==
  (c_pc = "return" /\ BodyLen >= MIN_LEN /\ BodyHasKeyword) => c_result = TRUE

(***************************************************************************)
(* C7 amended: for the two configured site keys, a body of length at least *)
(* 800 whose lower-cased form holds a keyword is accepted; for any other   *)
(* site key the keywords are not looked at and the body is accepted        *)
(* exactly when its lower-cased form is longer than 2000.                  *)
(***************************************************************************)
C7_KeywordConfiguredSite ==
  (c_pc = "return" /\ BodyLen >= MIN_LEN /\ BodyHasKeyword) =>
    IF c_site \in SiteKeys
      THEN c_result = TRUE
      ELSE c_result = (StrLen(Lower(c_html)) > LONG_LEN)

C7_Witness ==
  /\ c_pc = "return"
  /\ c_site = "koolinar"
  /\ BodyLen = MIN_LEN
  /\ Contains(c_html, "KW3")
  /\ c_result = TRUE

(***************************************************************************)
(* C8 as stated: a body without keyword is rejected when it is missing,    *)
(* empty or shorter than 800, rejected for the lengths 800..2000 and       *)
(* accepted for every length above 2000.                                   *)
(***************************************************************************)
C8_LengthOnly ==
  (c_pc = "return" /\ ~BodyHasKeyword) => c_result = (BodyLen > LONG_LEN)

(***************************************************************************)
(* Claims about the walk (specification Spec).                             *)
(***************************************************************************)
RecordLines == {i \in 1..Len(ledger) : ~ledger[i].torn}
InLoop ==
  pc \in {"Seeking", "Get", "Backoff", "Fetched", "SaveRaw", "SaveText",
          "Record", "Append", "Throttle"}

(***************************************************************************)
(* C1: over any sequence of runs, crashes and restarts on the same site,   *)
(* the ledger never holds two records with the same identifier.            *)
(***************************************************************************)
C1_NoDuplicateRecord ==
  \A i, j \in RecordLines : ledger[i].obj.id = ledger[j].obj.id => i = j

\* a second run has loaded a record of start_id, walked past it and
\* appended a record of its own
C1_Witness ==
  /\ runs >= 2
  /\ loaded_n >= 1
  /\ pc = "Done"
  /\ Len(ledger) > loaded_n
  /\ ledger[1].obj.id = start_id
  /\ ~HasTorn(ledger)

(***************************************************************************)
(* C2: the walk of a site terminates whatever the responses are: once the  *)
(* identifier has run past 0 in the direction of the step, the walker has  *)
(* left its loop, or is at the loop head with the target reached.          *)
(***************************************************************************)
C2_LeavesLoopPastZero ==
  (InLoop /\ step < 0 /\ current_id < 0) => (pc = "Seeking" /\ ~LoopCond)

(***************************************************************************)
(* C3: in a run that loaded an empty ledger, the identifiers fetched are   *)
(* the first K candidates in order, at most target of the results are      *)
(* acceptable, nothing is fetched after the target-th acceptable result,   *)
(* and at the return exactly target results were acceptable and the ledger *)
(* and the returned list hold exactly their target records.                *)
(***************************************************************************)
RECURSIVE NumOk(_)
NumOk(bs) == IF bs = <<>> THEN 0 ELSE (IF Head(bs) THEN 1 ELSE 0) + NumOk(Tail(bs))

Candidates(K) == [k \in 1..K |-> start_id + (k - 1) * step]

\* the identifiers fetched whose result was acceptable, in order
AcceptedIds ==
  LET idx == SelectSeq([k \in 1..Len(okResp) |-> k], LAMBDA k : okResp[k])
  IN [i \in 1..Len(idx) |-> fetched[idx[i]]]

C3_StopsAtTarget ==
  (loaded_n = 0 /\ (InLoop \/ pc = "Done")) =>
    /\ fetched = Candidates(Len(fetched))
    /\ Len(okResp) <= Len(fetched)
    /\ NumOk(okResp) <= target
    /\ NumOk(okResp) = target =>
         (Len(fetched) = Len(okResp) /\ okResp[Len(okResp)])
    /\ pc = "Done" =>
         /\ NumOk(okResp) = target
         /\ Len(metadata) = target
         /\ ledger = [i \in 1..target |-> Line(metadata[i])]
         /\ [i \in 1..target |-> metadata[i].id] = AcceptedIds

\* the largest target is reached after some candidates were rejected
C3_Witness ==
  /\ pc = "Done"
  /\ loaded_n = 0
  /\ target = MaxTarget
  /\ Len(fetched) > target
  /\ ~okResp[1]
  /\ Len(ledger) = target

(***************************************************************************)
(* C4: when every GET of a fetch_url call has raised, the call made        *)
(* exactly MAX_RETRIES attempts, slept between consecutive attempts only   *)
(* (first 1, then each time the previous wait times 3/2, so strictly       *)
(* longer) and returns (None, None).                                       *)
(***************************************************************************)
FracEq(a, b) == a.num * b.den = b.num * a.den

C4_BackoffAllFail ==
  (pc = "Fetched" /\ fails = gets) =>
    /\ gets = MAX_RETRIES
    /\ result = NoneResult
    /\ Len(sleeps) = MAX_RETRIES - 1
    /\ FracEq(sleeps[1], Frac(1, 1))
    /\ \A i \in 1..(Len(sleeps) - 1) :
         /\ FracLess(sleeps[i], sleeps[i + 1])
         /\ FracEq(sleeps[i + 1], FracTimes(sleeps[i], BACKOFF_NUM, BACKOFF_DEN))

C4_Witness ==
  /\ pc = "Fetched"
  /\ fails = MAX_RETRIES
  /\ gets = MAX_RETRIES
  /\ result.none

(***************************************************************************)
(* C5: fetch_url returns at the first GET that yields a response, with     *)
(* that status and body whatever the status is, without a further attempt  *)
(* or sleep; attempt k is made only after k-1 GETs have raised.            *)
(***************************************************************************)
C5_ReturnsFirstResponse ==
  /\ pc = "Get" => (fails = gets /\ attempt = fails + 1 /\ Len(sleeps) = fails)
  /\ pc = "Backoff" => (fails = gets /\ attempt = fails /\ Len(sleeps) = fails - 1)
  /\ (pc = "Fetched" /\ ~served.none) =>
       /\ result = served
       /\ gets = fails + 1
       /\ attempt = gets
       /\ Len(sleeps) = fails

\* a status other than 200 is returned at the third attempt
C5_Witness ==
  /\ pc = "Fetched"
  /\ fails = 2
  /\ gets = 3
  /\ ~result.none
  /\ result.status # HTTP_OK
  /\ result.body = ErrorBody

(***************************************************************************)
(* C9: in every state, also after a crash or a failed write, every record  *)
(* of the ledger has its raw file and its text file.                       *)
(***************************************************************************)
C9_RecordHasArtifacts ==
  \A i \in RecordLines :
    ledger[i].obj.id \in raw_files /\ ledger[i].obj.id \in text_files

\* a later persisting step was cut short after its raw file was written
C9_Witness ==
  /\ pc \in {"Crashed", "WriteError"}
  /\ RecordLines # {}
  /\ \E id \in raw_files : id \notin text_files

(***************************************************************************)
(* C10: after N records have been written whole to the ledger, the load of *)
(* the next run succeeds and rebuilds a seen-set of exactly N members, the *)
(* N identifiers, and the sequence of the N records; the load raises only  *)
(* when a write was cut short and its partial line is still the end of the *)
(* ledger.                                                                 *)
(***************************************************************************)
C10_LoadReflectsAppends ==
  /\ pc = "Loaded" =>
       /\ seen_ids = {appended[i] : i \in 1..Len(appended)}
       /\ Cardinality(seen_ids) = Len(appended)
       /\ Len(metadata) = Len(appended)
       /\ \A i \in 1..Len(appended) :
            metadata[i].id = appended[i] /\ ledger[i].obj = metadata[i]
  /\ pc = "LoadError" =>
       \E i \in 1..Len(ledger) : ledger[i].torn /\ ledger[i].open

(***************************************************************************)
(* C11: when the ledger holds a line that cannot be parsed, the load ends  *)
(* in an error: no load succeeds with such a line in the ledger (the line  *)
(* is never skipped), the failed run issues no fetch, and the load and the *)
(* error leave the ledger and the artifact files as they were.             *)
(***************************************************************************)
C11_LoadFailsOnBadLine ==
  /\ [](pc = "Loaded" => ~HasTorn(ledger))
  /\ [](pc = "LoadError" => (fetched = <<>> /\ gets = 0 /\ attempts = 0))
  /\ [][/\ (pc = "Start" /\ HasTorn(ledger)) =>
             /\ pc' \in {"LoadError", "Crashed"}
             /\ UNCHANGED diskvars
             /\ fetched' = <<>>
        /\ (pc = "LoadError") =>
             /\ HasTorn(ledger)
             /\ UNCHANGED diskvars
             /\ fetched' = <<>>]_vars

\* a restarted process found the partial line an append had left
C11_Witness ==
  /\ pc = "LoadError"
  /\ runs >= 2
  /\ HasTorn(ledger)
  /\ fetched = <<>>

(***************************************************************************)
(* C12: when the write of the raw file, of the text file or of the ledger  *)
(* line of an accepted document fails, the walk of the site is aborted:    *)
(* after the failed write the run is in its error state, where it neither  *)
(* moves to the next identifier nor fetches, until the program is started  *)
(* again.                                                                  *)
(***************************************************************************)
C12_WriteFailureAborts ==
  /\ [](write_errors > 0 => (pc = "WriteError" /\ write_errors = 1))
  /\ [][pc = "WriteError" =>
          (pc' = "Start" /\ UNCHANGED diskvars /\ fetched' = <<>>)]_vars

\* the ledger line of an accepted document could not be written
C12_Witness ==
  /\ pc = "WriteError"
  /\ write_errors = 1
  /\ current_id \in raw_files
  /\ current_id \in text_files
  /\ current_id \in seen_ids
  /\ current_id \notin LedgerIds(ledger)

(***************************************************************************)
(* compute_stats(all_meta).  A number is kept as the fraction num / den:   *)
(* an int n is n / 1, and the true divisions of lines 165 and 176 are kept *)
(* exact.                                                                  *)
(***************************************************************************)
\* sum(lst)
RECURSIVE SumSeq(_)
SumSeq(lst) == IF lst = <<>> THEN 0 ELSE Head(lst) + SumSeq(Tail(lst))

\* sorted(lst): each element is put before the first larger one
RECURSIVE InsertSorted(_, _)
InsertSorted(x, srt) ==
  IF srt = <<>> THEN <<x>>
  ELSE IF x < Head(srt) THEN <<x>> \o srt
  ELSE <<Head(srt)>> \o InsertSorted(x, Tail(srt))

RECURSIVE Sorted(_)
Sorted(lst) ==
  IF lst = <<>> THEN <<>>
  ELSE InsertSorted(lst[Len(lst)], Sorted(SubSeq(lst, 1, Len(lst) - 1)))

\* lines 164-165
avg(lst) == IF lst # <<>> THEN Frac(SumSeq(lst), Len(lst)) ELSE Frac(0, 1)

\* faulty variant: the list is not sorted
median_unsorted(lst) ==
  IF lst = <<>> THEN Frac(0, 1)
  ELSE LET n == Len(lst)
           mid == n \div 2
       IN IF n % 2 = 1 THEN Frac(lst[mid + 1], 1)
          ELSE Frac(lst[mid] + lst[mid + 1], 2)

\* lines 167-176 (s[mid] of the code is srt[mid + 1] here: indices from 1)
median(lst) ==
  IF lst = <<>> THEN Frac(0, 1)
  ELSE LET srt == Sorted(lst)
           n == Len(srt)
           mid == n \div 2
       IN IF n % 2 = 1 THEN Frac(srt[mid + 1], 1)
          ELSE Frac(srt[mid] + srt[mid + 1], 2)

\* lines 159-190
compute_stats(all_meta) ==
  LET raw_sizes == [i \in 1..Len(all_meta) |-> all_meta[i].raw_size_bytes]
      text_sizes == [i \in 1..Len(all_meta) |-> all_meta[i].text_size_bytes]
      words == [i \in 1..Len(all_meta) |-> all_meta[i].word_count]
  IN [num_documents |-> Len(all_meta),
      total_raw_bytes |-> SumSeq(raw_sizes),
      total_text_bytes |-> SumSeq(text_sizes),
      total_words |-> SumSeq(words),
      avg_raw_bytes |-> avg(raw_sizes),
      avg_text_bytes |-> avg(text_sizes),
      avg_words |-> avg(words),
      median_raw_bytes |-> median(raw_sizes),
      median_text_bytes |-> median(text_sizes),
      median_words |-> median(words)]

(***************************************************************************)
(* compute_stats on its own: every list of at most MaxStatLen records of   *)
(* StatRecs.                                                               *)
(***************************************************************************)
\* records whose three sizes are ordered differently
StatRecs ==
  {[raw_size_bytes |-> 10, text_size_bytes |-> 4, word_count |-> 1],
   [raw_size_bytes |-> 20, text_size_bytes |-> 9, word_count |-> 3],
   [raw_size_bytes |-> 50, text_size_bytes |-> 2, word_count |-> 2],
   [raw_size_bytes |-> 35, text_size_bytes |-> 6, word_count |-> 8]}

StatLists == UNION {[1..n -> StatRecs] : n \in 0..MaxStatLen}

InitStats ==
  /\ s_pc = "call"
  /\ s_meta \in StatLists
  /\ s_stats = NoStats
  /\ site_key = "povarenok"
  /\ step = -1
  /\ target = 1
  /\ pc = "Idle"
  /\ WalkerFresh
  /\ ClassIdle

\* lines 159-190
ComputeStats ==
  /\ s_pc = "call"
  /\ s_stats' = compute_stats(s_meta)
  /\ s_pc' = "return"
  /\ UNCHANGED <<cfgvars, diskvars, pc, memvars, fetchvars, histvars, classvars,
                 s_meta>>

NextStats == ComputeStats

SpecStats == InitStats /\ [][NextStats]_vars

(***************************************************************************)
(* C13: for every list of records, each average is the sum divided by the  *)
(* count and each median is the middle value in increasing order when the  *)
(* count is odd and the mean of the two middle values when it is even, for *)
(* raw bytes, text bytes and word counts; for the empty list every average *)
(* and median is 0.                                                        *)
(***************************************************************************)
\* the k-th value of vals in increasing order, by counting
KthSmallest(vals, k) ==
  CHOOSE v \in {vals[i] : i \in 1..Len(vals)} :
    /\ Cardinality({i \in 1..Len(vals) : vals[i] < v}) < k
    /\ k <= Cardinality({i \in 1..Len(vals) : vals[i] <= v})

IsAverage(a, vals) ==
  IF vals = <<>> THEN FracEq(a, Frac(0, 1))
  ELSE a.den # 0 /\ a.num * Len(vals) = SumSeq(vals) * a.den

IsMedian(m, vals) ==
  LET n == Len(vals) IN
  IF n = 0 THEN FracEq(m, Frac(0, 1))
  ELSE IF n % 2 = 1 THEN FracEq(m, Frac(KthSmallest(vals, (n + 1) \div 2), 1))
  ELSE FracEq(m, Frac(KthSmallest(vals, n \div 2) + KthSmallest(vals, n \div 2 + 1), 2))

StatRaw == [i \in 1..Len(s_meta) |-> s_meta[i].raw_size_bytes]
StatText == [i \in 1..Len(s_meta) |-> s_meta[i].text_size_bytes]
StatWords == [i \in 1..Len(s_meta) |-> s_meta[i].word_count]

C13_StatsCorrect ==
  s_pc = "return" =>
    /\ s_stats.num_documents = Len(s_meta)
    /\ IsAverage(s_stats.avg_raw_bytes, StatRaw)
    /\ IsAverage(s_stats.avg_text_bytes, StatText)
    /\ IsAverage(s_stats.avg_words, StatWords)
    /\ IsMedian(s_stats.median_raw_bytes, StatRaw)
    /\ IsMedian(s_stats.median_text_bytes, StatText)
    /\ IsMedian(s_stats.median_words, StatWords)

\* four records out of order: the median of the raw sizes 50, 10, 35, 20 is
\* (20 + 35) / 2
C13_Witness ==
  /\ s_pc = "return"
  /\ Len(s_meta) = 4
  /\ StatRaw = <<50, 10, 35, 20>>
  /\ FracEq(s_stats.median_raw_bytes, Frac(55, 2))
  /\ FracEq(s_stats.avg_raw_bytes, Frac(115, 4))

(***************************************************************************)
(* C14: when fetch_url has returned (None, None), a status other than 200, *)
(* an empty body or a body the classifier rejects, the walker goes to the  *)
(* throttle delay and from there to the next identifier, and leaves the    *)
(* ledger, the artifact files, seen_ids and metadata as they were.         *)
(***************************************************************************)
Rejected ==
  \/ result.none
  \/ result.status # HTTP_OK
  \/ Falsy(result.body)
  \/ ~is_likely_recipe(result.body, site_key)

C14_RejectedLeavesNoTrace ==
  [][/\ (pc = "Fetched" /\ Rejected /\ pc' # "Crashed") =>
          /\ pc' = "Throttle"
          /\ UNCHANGED <<diskvars, seen_ids, metadata, current_id>>
     /\ (pc = "Throttle" /\ pc' # "Crashed") =>
          /\ pc' = "Seeking"
          /\ current_id' = current_id + step
          /\ UNCHANGED <<diskvars, seen_ids, metadata>>]_vars

\* after one accepted document, a candidate whose result is rejected is passed
C14_Witness ==
  /\ pc = "Seeking"
  /\ Len(okResp) = 2
  /\ okResp[1]
  /\ ~okResp[2]
  /\ fetched[2] \notin seen_ids
  /\ current_id = fetched[2] + step
  /\ Len(ledger) = 1

(***************************************************************************)
(* C15: an identifier of seen_ids is never fetched: fetch_url only runs    *)
(* for an identifier outside seen_ids, and at the loop head a candidate of *)
(* seen_ids is passed by current_id += step alone, with no fetch_url call, *)
(* no change of attempts and no throttle delay.                            *)
(***************************************************************************)
C15_SeenNeverFetched ==
  /\ [](pc \in {"Get", "Backoff", "Fetched"} => current_id \notin seen_ids)
  /\ [][(pc = "Seeking" /\ current_id \in seen_ids /\ pc' # "Crashed") =>
          /\ pc' \in {"Seeking", "Done"}
          /\ pc' = "Seeking" => current_id' = current_id + step
          /\ UNCHANGED <<attempts, throttles, fetched, gets>>]_vars

\* a restarted run has passed start_id, loaded from the ledger
C15_Witness ==
  /\ pc = "Seeking"
  /\ runs >= 2
  /\ start_id \in seen_ids
  /\ current_id = start_id + step
  /\ attempts = 0
  /\ throttles = 0
  /\ fetched = <<>>

(***************************************************************************)
(* C16: every fetch_url call of a walk is followed by exactly one throttle *)
(* delay before the next candidate is looked at or the loop ends: at the   *)
(* loop head and at the return there have been as many delays as calls,    *)
(* and from a call to its delay there is exactly one delay less, so no two *)
(* calls happen without a delay between them.                              *)
(***************************************************************************)
C16_ThrottleAfterEveryFetch ==
  /\ pc \in {"Seeking", "Done"} =>
       (throttles = Len(fetched) /\ attempts = Len(fetched))
  /\ pc \in {"Get", "Backoff", "Fetched", "SaveRaw", "SaveText", "Record",
             "Append", "Throttle"} =>
       throttles = Len(fetched) - 1

\* three calls, rejected, accepted, rejected, and three delays
C16_Witness ==
  /\ pc = "Seeking"
  /\ okResp = <<FALSE, TRUE, FALSE>>
  /\ Len(fetched) = 3
  /\ throttles = 3

(***************************************************************************)
(* C17: in every state of a walk every identifier of seen_ids has a record *)
(* in the ledger.  The identifier being persisted is left out of the       *)
(* statement from seen_ids.add (line 147) to the end of its write (lines   *)
(* 148-149), since the code adds it before it writes it.                   *)
(***************************************************************************)
C17_SeenHasRecord ==
  \A id \in seen_ids :
    \/ id \in LedgerIds(ledger)
    \/ id = current_id /\ pc \in {"Append", "WriteError"}

(***************************************************************************)
(* C18: over any sequence of runs, crashes and restarts the ledger never   *)
(* holds more than TARGET_PER_SITE lines, hence never more than            *)
(* TARGET_PER_SITE records; a run that has loaded TARGET_PER_SITE records  *)
(* of distinct identifiers never leaves the loop head for a fetch, issues  *)
(* no GET and appends nothing.                                             *)
(***************************************************************************)
C18_LedgerBoundedByTarget ==
  /\ Len(ledger) <= target
  /\ Cardinality(RecordLines) <= target
  /\ (loaded_n = target /\ (pc = "Loaded" \/ InLoop \/ pc = "Done")) =>
       /\ Cardinality(seen_ids) = target
       /\ pc \in {"Loaded", "Seeking", "Done"}
       /\ fetched = <<>>
       /\ gets = 0
       /\ attempts = 0
       /\ Len(ledger) = loaded_n
       /\ Len(metadata) = loaded_n

\* a second run over a full ledger of two records has returned
C18_Witness ==
  /\ pc = "Done"
  /\ runs = 2
  /\ target = 2
  /\ loaded_n = target
  /\ Cardinality(LedgerIds(ledger)) = target
  /\ fetched = <<>>

\* the identifiers of the records this run has loaded
LoadedIds == {metadata[i].id : i \in 1..loaded_n}
FetchedIds == {fetched[i] : i \in 1..Len(fetched)}

(***************************************************************************)
(* C19: within one run the candidate at the loop head is start_id first    *)
(* and start_id + k*step after k candidates; every earlier candidate has   *)
(* been considered exactly once, skipped as loaded or handed to fetch_url; *)
(* the identifiers handed to fetch_url follow the direction of step        *)
(* strictly, so none is fetched twice; and current_id only ever moves by   *)
(* one step.                                                               *)
(***************************************************************************)
C19_CandidatesInOrder ==
  /\ []((InLoop \/ pc = "Done") =>
         /\ \E k \in 0..(Span + 1) :
              /\ current_id = start_id + k * step
              /\ \A j \in 0..(k - 1) :
                   LET c == start_id + j * step IN
                     (c \in FetchedIds) # (c \in LoadedIds)
              /\ FetchedIds \subseteq {start_id + j * step : j \in 0..k}
         /\ \A i \in 1..Len(fetched) : \A j \in 1..Len(fetched) :
              i < j => (fetched[j] - fetched[i]) * step > 0
         /\ \A i \in 1..Len(fetched) :
              IF pc \in {"Seeking", "Done"}
                THEN (current_id - fetched[i]) * step > 0
                ELSE (current_id - fetched[i]) * step >= 0
         /\ pc \notin {"Seeking", "Done"} =>
              (fetched # <<>> /\ fetched[Len(fetched)] = current_id))
  /\ [][(pc = "Loaded" /\ pc' = "Seeking") => current_id' = start_id]_vars
  /\ [][(InLoop /\ (InLoop' \/ pc' = "Done") /\ current_id' # current_id) =>
          (pc = "Throttle" \/ pc = "Seeking") /\ current_id' = current_id + step]_vars

\* a second run skips the loaded start_id and is fetching its second
\* candidate, the third of the walk
C19_Witness ==
  /\ pc = "Get"
  /\ runs = 2
  /\ loaded_n = 1
  /\ start_id \in LoadedIds
  /\ Len(fetched) = 2
  /\ current_id = start_id + 2 * step

(***************************************************************************)
(* C20: at every loop-head state of collect_for_site and at its return the *)
(* in-memory list metadata is the sequence of the records of meta.jsonl in *)
(* file order, one per line, and the set of its identifiers is seen_ids.   *)
(***************************************************************************)
C20_MetadataMirrorsLedger ==
  pc \in {"Seeking", "Done"} =>
    /\ ~HasTorn(ledger)
    /\ Len(metadata) = Len(ledger)
    /\ metadata = [i \in 1..Len(ledger) |-> ledger[i].obj]
    /\ {metadata[i].id : i \in 1..Len(metadata)} = seen_ids
    /\ Cardinality(seen_ids) = Len(metadata)


=============================================================================
